---------------------------- MODULE Spec2Model ----------------------------
(***************************************************************************)
(* Circular mean of (angle, magnitude) readings: src/src/lib.rs.           *)
(*                                                                         *)
(* Numbers.  The program computes in binary64.  Here a binary64 value is   *)
(* a record [k, m, e, t]:                                                     *)
(*   k = "fin": the value (m / ONE) * delta^e, where ONE = 1000 is the     *)
(*              fixed-point scale of the mantissa m and delta stands for   *)
(*              the rounding residual pi - PI = 1.22e-16 of the binary64   *)
(*              constant PI.  e = 0 for ordinary values; e >= 1 for the    *)
(*              residuals that sin and cos return where the exact result   *)
(*              would be 0: sin(PI) = 1.22e-16, cos(PI/2) = 6.1e-17.       *)
(*              A value of order 0 also carries t, its own residual in     *)
(*              units of delta / ONE, rounded as binary64 rounds it: it    *)
(*              is what is left when the mantissas of a sum cancel.        *)
(*   k = "nan": NaN.     k = "inf": m = 1 for +inf, m = -1 for -inf.       *)
(* Radians are kept on their own grid, PI / 18000 per unit, so that the    *)
(* one-degree step TAU / 360 is representable (it is DEG = 100 units).     *)
(***************************************************************************)
EXTENDS Integers, Sequences, FiniteSets, TLC

VARIABLES readings, called, out, conv

vars == <<readings, called, out, conv>>

\* ---------------------------------------------------------------- bounds
MaxLen == 3
MaxMag == 2

\* ------------------------------------------------------------- constants
ONE == 1000
\* std::f64::consts::PI on the radian grid.
PI == 18000
TAU == 2 * PI
\* One degree on the radian grid.
DEG == PI \div 180
\* One radian on the radian grid: 18000 / pi.
RAD_ONE == 5730
\* ln(delta) = ln(1.22e-16) = -36.64, on the radian grid.
LN_DELTA == -209924
LN2_MILLI == 693
\* The spacing of binary64 values in [1, 2), 2^-52, in units of delta / ONE.
ULP_ONE == 1813

\* -------------------------------------------------------- integer helpers
Abs(x) == IF x < 0 THEN -x ELSE x

Sgn(x) == IF x < 0 THEN -1 ELSE IF x > 0 THEN 1 ELSE 0

\* a / b rounded to the nearest integer (b > 0), halves away from zero.
RoundDiv(a, b) == Sgn(a) * ((2 * Abs(a) + b) \div (2 * b))

\* a * b / c rounded to nearest, without forming a * b (b, c > 0).
MulDiv(a, b, c) ==
    LET q == Abs(a) \div c
        r == Abs(a) % c
    IN  Sgn(a) * (q * b + (2 * r * b + c) \div (2 * c))

RECURSIVE SqrtSearch(_, _, _)
SqrtSearch(n, lo, hi) ==
    IF lo >= hi THEN lo
    ELSE LET mid == (lo + hi + 1) \div 2
         IN  IF mid * mid <= n THEN SqrtSearch(n, mid, hi)
             ELSE SqrtSearch(n, lo, mid - 1)

\* sqrt(n) rounded to the nearest integer, 0 <= n < 2^31.
RoundSqrt(n) ==
    LET h == SqrtSearch(n, 0, 46340)
    IN  IF n - h * h > h THEN h + 1 ELSE h

\* ------------------------------------------------------- binary64 values
Fin(m, e) == [k |-> "fin", m |-> m, e |-> IF m = 0 THEN 0 ELSE e, t |-> 0]

NaN == [k |-> "nan", m |-> 0, e |-> 0, t |-> 0]

Inf(s) == [k |-> "inf", m |-> s, e |-> 0, t |-> 0]

Zero == Fin(0, 0)

One == Fin(ONE, 0)

IsNaN(a) == a.k = "nan"

IsFinite(a) == a.k = "fin"

IsZero(a) == a.k = "fin" /\ a.m = 0

RECURSIVE IsPow2Int(_)
IsPow2Int(n) == n = 1 \/ (n > 1 /\ n % 2 = 0 /\ IsPow2Int(n \div 2))

\* Whether am / ONE is a power of two.
IsPow2(am) ==
    IF am >= ONE THEN am % ONE = 0 /\ IsPow2Int(am \div ONE)
    ELSE am > 0 /\ ONE % am = 0 /\ IsPow2Int(ONE \div am)

\* The spacing of binary64 values at am / ONE, in units of delta / ONE.
RECURSIVE Ulp(_)
Ulp(am) ==
    IF am >= 2 * ONE THEN 2 * Ulp(am \div 2)
    ELSE IF am < ONE THEN Ulp(2 * am) \div 2
    ELSE ULP_ONE

\* Round-to-nearest of m / ONE + (t / ONE) * delta, m # 0: the residual t
\* becomes a multiple of the spacing at m (of half of it just under a power
\* of two).  1 - delta stays below 1; 2 + delta is 2.
Quantise(m, t) ==
    LET am == Abs(m)
        q  == IF t # 0 /\ Sgn(t) # Sgn(m) /\ IsPow2(am)
              THEN Ulp(am) \div 2 ELSE Ulp(am)
    IN  IF q = 0 THEN t ELSE q * RoundDiv(t, q)

\* m / ONE + (t / ONE) * delta, rounded.
FinR(m, t) ==
    IF m = 0 THEN Fin(t, 1)
    ELSE [k |-> "fin", m |-> m, e |-> 0, t |-> Quantise(m, t)]

\* a + b
FAdd(a, b) ==
    IF IsNaN(a) \/ IsNaN(b) THEN NaN
    ELSE IF a.k = "inf" /\ b.k = "inf" THEN (IF a.m = b.m THEN a ELSE NaN)
    ELSE IF a.k = "inf" THEN a
    ELSE IF b.k = "inf" THEN b
    ELSE IF a.m = 0 THEN b
    ELSE IF b.m = 0 THEN a
    ELSE IF a.e = 0 /\ b.e = 0 THEN FinR(a.m + b.m, a.t + b.t)
    ELSE IF a.e = 0 THEN (IF b.e = 1 THEN FinR(a.m, a.t + b.m) ELSE a)
    ELSE IF b.e = 0 THEN (IF a.e = 1 THEN FinR(b.m, b.t + a.m) ELSE b)
    ELSE IF a.e < b.e THEN a
    ELSE IF b.e < a.e THEN b
    ELSE Fin(a.m + b.m, a.e)

FNeg(a) == IF IsNaN(a) THEN NaN ELSE [a EXCEPT !.m = -a.m, !.t = -a.t]

FAbs(a) == IF a.k = "fin" /\ a.m < 0 THEN FNeg(a) ELSE IF a.k = "inf" THEN Inf(1) ELSE a

FSub(a, b) == FAdd(a, FNeg(b))

\* a * b with the mantissas multiplied as integers (no rescaling); used on
\* the radian grid, where no residual is carried.
RawMul(a, b) ==
    IF IsNaN(a) \/ IsNaN(b) THEN NaN
    ELSE IF a.k = "inf" \/ b.k = "inf"
         THEN (IF a.m = 0 \/ b.m = 0 THEN NaN ELSE Inf(Sgn(a.m) * Sgn(b.m)))
    ELSE Fin(a.m * b.m, a.e + b.e)

\* a * b, both on the ONE scale.
FMul(a, b) ==
    IF a.k # "fin" \/ b.k # "fin" THEN RawMul(a, b)
    ELSE IF a.e = 0 /\ b.e = 0
         THEN FinR(RoundDiv(a.m * b.m, ONE), RoundDiv(a.m * b.t + b.m * a.t, ONE))
    ELSE Fin(RoundDiv(a.m * b.m, ONE), a.e + b.e)

\* (a / b) * scale as mantissa: scale = ONE when a and b share a scale and
\* the quotient is a ONE-scale value; scale = 1 when b is a plain count.
FDivScaled(a, b, scale) ==
    IF IsNaN(a) \/ IsNaN(b) THEN NaN
    ELSE IF a.k = "inf" THEN (IF b.k = "inf" THEN NaN
                              ELSE Inf(a.m * (IF b.m < 0 THEN -1 ELSE 1)))
    ELSE IF b.k = "inf" THEN Zero
    ELSE IF b.m = 0 THEN (IF a.m = 0 THEN NaN ELSE Inf(Sgn(a.m)))
    ELSE LET q == Sgn(b.m) * MulDiv(a.m, scale, Abs(b.m))
             \* a non-zero binary64 quotient of this size does not underflow
             qm == IF q = 0 THEN Sgn(a.m) * Sgn(b.m) ELSE q
         IN  IF a.e = 0 /\ b.e = 0 /\ a.m # 0
             THEN FinR(qm, Sgn(b.m) * (MulDiv(a.t, scale, Abs(b.m))
                                        - MulDiv(qm, Abs(b.t), Abs(b.m)) * Sgn(b.t) * Sgn(b.m)))
             ELSE Fin(qm, a.e - b.e)

FDiv(a, b) == FDivScaled(a, b, ONE)

\* x.powi(2)
Powi2(a) == FMul(a, a)

\* x.sqrt(); a residual of order 2 has a root of order 1
FSqrt(a) ==
    IF IsNaN(a) THEN NaN
    ELSE IF a.k = "inf" THEN (IF a.m > 0 THEN a ELSE NaN)
    ELSE IF a.m < 0 THEN NaN
    ELSE IF a.m = 0 THEN Zero
    ELSE IF a.e = 0
         THEN FinR(RoundSqrt(a.m * ONE), MulDiv(a.t, ONE, 2 * RoundSqrt(a.m * ONE)))
    ELSE Fin(RoundSqrt(a.m * ONE), a.e \div 2)

\* x.hypot(y): sqrt(x^2 + y^2) rounded once.
Hypot(x, y) ==
    IF IsNaN(x) \/ IsNaN(y) THEN NaN
    ELSE IF x.k = "inf" \/ y.k = "inf" THEN Inf(1)
    ELSE IF x.m = 0 THEN FAbs(y)
    ELSE IF y.m = 0 THEN FAbs(x)
    ELSE IF x.e < y.e THEN FAbs(x)
    ELSE IF y.e < x.e THEN FAbs(y)
    ELSE IF x.e > 0 THEN Fin(RoundSqrt(x.m * x.m + y.m * y.m), x.e)
    ELSE LET h == RoundSqrt(x.m * x.m + y.m * y.m)
         IN  FinR(h, RoundDiv(x.m * x.t + y.m * y.t, h))

\* ------------------------------------------------------------ libm: trig
\* 1000 * sin(d degrees), d = 0 .. 90 (SinTab[d + 1]).
SinTab ==
    <<0, 17, 35, 52, 70, 87, 105, 122, 139, 156, 174, 191, 208, 225, 242,
      259, 276, 292, 309, 326, 342, 358, 375, 391, 407, 423, 438, 454, 469,
      485, 500, 515, 530, 545, 559, 574, 588, 602, 616, 629, 643, 656, 669,
      682, 695, 707, 719, 731, 743, 755, 766, 777, 788, 799, 809, 819, 829,
      839, 848, 857, 866, 875, 883, 891, 899, 906, 914, 921, 927, 934, 940,
      946, 951, 956, 961, 966, 970, 974, 978, 982, 985, 988, 990, 993, 995,
      996, 998, 999, 999, 1000, 1000>>

\* 1000 * sin of a whole number of degrees.
SinDeg(d) ==
    LET r == d % 360
    IN  IF r <= 90 THEN SinTab[r + 1]
        ELSE IF r <= 180 THEN SinTab[180 - r + 1]
        ELSE IF r <= 270 THEN -SinTab[r - 180 + 1]
        ELSE -SinTab[360 - r + 1]

CosDeg(d) == SinDeg(d + 90)

\* x.sin() for x on the radian grid.  At the multiples k * (PI / 2) the
\* argument is k * (pi - delta) / 2, not k * pi / 2: where the exact sine
\* would be 0 the result is the residual -cos(j pi) * j * delta (k = 2 j).
Sin(x) ==
    IF x % (PI \div 2) = 0
    THEN LET k == x \div (PI \div 2)
         IN  IF k % 2 = 0
             THEN LET j == k \div 2
                  IN  Fin((IF j % 2 = 0 THEN -1 ELSE 1) * j * ONE, 1)
             ELSE Fin((IF k % 4 = 1 THEN 1 ELSE -1) * ONE, 0)
    ELSE LET d  == x \div DEG
             f  == x % DEG
             s0 == SinDeg(d)
             s1 == SinDeg(d + 1)
         IN  Fin(s0 + RoundDiv((s1 - s0) * f, DEG), 0)

\* x.cos(): the residual at odd k is sin(k pi / 2) * k * delta / 2.
Cos(x) ==
    IF x % (PI \div 2) = 0
    THEN LET k == x \div (PI \div 2)
         IN  IF k % 2 = 0
             THEN Fin((IF k % 4 = 0 THEN 1 ELSE -1) * ONE, 0)
             ELSE Fin((IF k % 4 = 1 THEN 1 ELSE -1) * k * (ONE \div 2), 1)
    ELSE LET d  == x \div DEG
             f  == x % DEG
             c0 == CosDeg(d)
             c1 == CosDeg(d + 1)
         IN  Fin(c0 + RoundDiv((c1 - c0) * f, DEG), 0)

\* The largest d in lo .. hi with the direction d degrees not past (ax, ay),
\* for ax, ay >= 0 not both zero.
RECURSIVE DegSearch(_, _, _, _)
DegSearch(ax, ay, lo, hi) ==
    IF lo >= hi THEN lo
    ELSE LET mid == (lo + hi + 1) \div 2
         IN  IF CosDeg(mid) * ay - SinDeg(mid) * ax >= 0
             THEN DegSearch(ax, ay, mid, hi)
             ELSE DegSearch(ax, ay, lo, mid - 1)

\* The angle of (ax, ay), ax, ay >= 0 not both zero, in 0 .. PI / 2.
QuadrantAngle(ax, ay) ==
    LET d == DegSearch(ax, ay, 0, 90)
    IN  IF d = 90 THEN PI \div 2
        ELSE LET c0 == CosDeg(d) * ay - SinDeg(d) * ax
                 c1 == SinDeg(d + 1) * ax - CosDeg(d + 1) * ay
             IN  d * DEG + MulDiv(c0, DEG, c0 + c1)

\* atan2 of two integers of the same order, not both zero.
Atan2Int(y, x) ==
    LET a == QuadrantAngle(Abs(x), Abs(y))
    IN  IF x >= 0 THEN (IF y >= 0 THEN a ELSE -a)
        ELSE (IF y >= 0 THEN PI - a ELSE -(PI - a))

\* y.atan2(x), on the radian grid.  A component of higher order than the
\* other does not move the angle off the axis, but its sign still selects
\* the branch on the negative x axis: atan2(-1.2e-16, -1.0) = -PI.
Atan2(y, x) ==
    IF IsNaN(y) \/ IsNaN(x) THEN NaN
    ELSE IF y.k = "inf" \/ x.k = "inf"
         THEN (IF y.k = "inf" /\ x.k = "inf"
               THEN Fin(y.m * (IF x.m > 0 THEN PI \div 4 ELSE 3 * (PI \div 4)), 0)
               ELSE IF y.k = "inf" THEN Fin(y.m * (PI \div 2), 0)
               ELSE IF x.m > 0 THEN Zero
               ELSE Fin((IF y.m < 0 THEN -1 ELSE 1) * PI, 0))
    ELSE IF x.m = 0 /\ y.m = 0 THEN Zero
    ELSE IF x.m # 0 /\ (y.m = 0 \/ y.e > x.e)
         THEN (IF x.m > 0 THEN Zero
               ELSE Fin((IF y.m < 0 THEN -1 ELSE 1) * PI, 0))
    ELSE IF x.m = 0 \/ x.e > y.e THEN Fin(Sgn(y.m) * (PI \div 2), 0)
    ELSE Fin(Atan2Int(y.m, x.m), 0)

\* ------------------------------------------------------- libm: exp, ln
\* 1000 * ln(v / 1000), v >= 1.
RECURSIVE LnMilli(_)
LnMilli(v) ==
    IF v >= 2 * ONE THEN LN2_MILLI + LnMilli(v \div 2)
    ELSE IF v < ONE THEN LnMilli(2 * v) - LN2_MILLI
    ELSE LET t  == RoundDiv((v - ONE) * ONE, v + ONE)
             t3 == RoundDiv(t * t * t, ONE * ONE)
             t5 == RoundDiv(t3 * t * t, ONE * ONE)
         IN  2 * t + RoundDiv(2 * t3, 3) + RoundDiv(2 * t5, 5)

\* x.ln() on the ONE scale.
FLnOne(a) ==
    IF IsNaN(a) THEN NaN
    ELSE IF a.k = "inf" THEN (IF a.m > 0 THEN a ELSE NaN)
    ELSE IF a.m < 0 THEN NaN
    ELSE IF a.m = 0 THEN Inf(-1)
    ELSE Fin(LnMilli(a.m) + a.e * MulDiv(LN_DELTA, ONE, RAD_ONE), 0)

\* x.ln() on the radian grid (the scale of the imaginary part of a complex
\* logarithm).
FLn(a) ==
    LET l == FLnOne(a)
    IN  IF l.k = "fin" THEN Fin(MulDiv(l.m, RAD_ONE, ONE), 0) ELSE l

\* x.exp() on the ONE scale, by its series (|x| <= 1).
FExp(a) ==
    IF IsNaN(a) THEN NaN
    ELSE IF a.k = "inf" THEN (IF a.m > 0 THEN a ELSE Zero)
    ELSE IF a.e > 0 THEN One
    ELSE LET x  == a.m
             x2 == RoundDiv(x * x, ONE)
             x3 == RoundDiv(x2 * x, ONE)
             x4 == RoundDiv(x3 * x, ONE)
         IN  Fin(ONE + x + RoundDiv(x2, 2) + RoundDiv(x3, 6) + RoundDiv(x4, 24), 0)

\* r.powf(x) for a real r >= 0 and a whole number x: pow(1.0, x) = 1.0.
RealPowf(r, x) ==
    IF r = One THEN One
    ELSE IF x = 0 THEN One
    ELSE FExp(RawMul(Fin(x, 0), FLnOne(r)))

\* --------------------------------------------------- num_complex::Complex
Complex(re, im) == [re |-> re, im |-> im]

\* sin and cos of a binary64 angle on the radian grid.
FSin(t) == IF t.k = "fin" THEN Sin(IF t.e = 0 THEN t.m ELSE 0) ELSE NaN

FCos(t) == IF t.k = "fin" THEN Cos(IF t.e = 0 THEN t.m ELSE 0) ELSE NaN

\* Complex::from_polar(r, theta) = (r cos theta, r sin theta)
FromPolar(r, theta) == Complex(FMul(r, FCos(theta)), FMul(r, FSin(theta)))

\* z.norm() = re.hypot(im)
CNorm(z) == Hypot(z.re, z.im)

\* z.arg() = im.atan2(re)
CArg(z) == Atan2(z.im, z.re)

\* z.exp() = from_polar(e^re, im)
CExp(z) == FromPolar(FExp(z.re), z.im)

\* z.ln() = (ln |z|, arg z), both parts on the radian grid
CLn(z) == Complex(FLn(CNorm(z)), CArg(z))

\* z.powf(x) = from_polar(|z|^x, arg z * x), x a whole number
CPowf(z, x) == FromPolar(RealPowf(CNorm(z), x), RawMul(CArg(z), Fin(x, 0)))

\* z + w
CAdd(z, w) == Complex(FAdd(z.re, w.re), FAdd(z.im, w.im))

\* z * t and t * z for a real t: componentwise
CScale(z, t) == Complex(FMul(z.re, t), FMul(z.im, t))

\* z / n for a count n (readings.len() as f64): componentwise
CDivCount(z, n) ==
    Complex(FDivScaled(z.re, Fin(n, 0), 1), FDivScaled(z.im, Fin(n, 0), 1))

\* z / w for two values on the same grid; the quotient is on the ONE scale.
CDiv(z, w) ==
    LET norm_sqr == FAdd(RawMul(w.re, w.re), RawMul(w.im, w.im))
        re == FAdd(RawMul(z.re, w.re), RawMul(z.im, w.im))
        im == FSub(RawMul(z.im, w.re), RawMul(z.re, w.im))
    IN  Complex(FDivScaled(re, norm_sqr, ONE), FDivScaled(im, norm_sqr, ONE))

\* ----------------------------------------------------------- the program
\* A reading is <<angle, magnitude>>: whole numbers of degrees and of units.
Angle(r) == r[1]

Magnitude(r) == Fin(r[2] * ONE, 0)

create_degrees_base == CExp(Complex(Zero, Fin(TAU \div 360, 0)))

angle_mag_to_complex(r, base) == CScale(CPowf(base, Angle(r)), Magnitude(r))

RECURSIVE SumAngles(_, _)
SumAngles(rs, i) == IF i = 0 THEN 0 ELSE SumAngles(rs, i - 1) + Angle(rs[i])

\* Iterator::sum over Complex: a fold from zero
RECURSIVE ComplexSum(_, _, _)
ComplexSum(rs, i, base) ==
    IF i = 0 THEN Complex(Zero, Zero)
    ELSE CAdd(ComplexSum(rs, i - 1, base), angle_mag_to_complex(rs[i], base))

\* The arithmetic mean of the raw angles, which ignores the wrap at 360.
average_arithmetic(rs) ==
    LET base == create_degrees_base
        total == ComplexSum(rs, Len(rs), base)
        result == CDivCount(total, Len(rs))
    IN  <<FDivScaled(Fin(ONE * SumAngles(rs, Len(rs)), 0), Fin(Len(rs), 0), 1),
          CNorm(result)>>

average(rs) ==
    LET base == create_degrees_base
        total == ComplexSum(rs, Len(rs), base)
        result == CDivCount(total, Len(rs))
        angle == CDiv(CLn(result), CLn(base))
    IN  <<angle.re, CNorm(result)>>

\* The angle in degrees handed to cos and sin as if it were in radians.
reading_to_axis_as_radians(r) ==
    LET angle_radians == Angle(r) * RAD_ONE
        x == Cos(angle_radians)
        y == Sin(angle_radians)
    IN  <<FMul(x, Magnitude(r)), FMul(y, Magnitude(r))>>

reading_to_axis(r) ==
    LET angle_radians == RoundDiv(Angle(r) * PI, 180)
        x == Cos(angle_radians)
        y == Sin(angle_radians)
    IN  <<FMul(x, Magnitude(r)), FMul(y, Magnitude(r))>>

RECURSIVE AxisFold(_, _)
AxisFold(rs, i) ==
    IF i = 0 THEN <<Zero, Zero>>
    ELSE LET acc == AxisFold(rs, i - 1)
             xy == reading_to_axis(rs[i])
         IN  <<FAdd(acc[1], xy[1]), FAdd(acc[2], xy[2])>>

average_with_trig(rs) ==
    LET sums == AxisFold(rs, Len(rs))
        sum_magnitude == FSqrt(FAdd(Powi2(sums[1]), Powi2(sums[2])))
        sum_x == FDiv(sums[1], sum_magnitude)
        sum_y == FDiv(sums[2], sum_magnitude)
        angle == Atan2(sum_y, sum_x)
        magnitude == FSqrt(FAdd(Powi2(sum_x), Powi2(sum_y)))
        angle_degrees == FDivScaled(RawMul(angle, Fin(180, 0)), Fin(PI, 0), ONE)
    IN  <<angle_degrees, magnitude>>

\* The fold with the magnitude left out of the accumulated term.
RECURSIVE OptimizedFold_NoMagnitude(_, _, _)
OptimizedFold_NoMagnitude(rs, i, base) ==
    IF i = 0 THEN Complex(Zero, Zero)
    ELSE CAdd(OptimizedFold_NoMagnitude(rs, i - 1, base), CPowf(base, rs[i][1]))

\* The accumulator of the single-pass fold after i readings.
RECURSIVE OptimizedFold(_, _, _)
OptimizedFold(rs, i, base) ==
    IF i = 0 THEN Complex(Zero, Zero)
    ELSE CAdd(OptimizedFold(rs, i - 1, base),
              CScale(CPowf(base, rs[i][1]), Magnitude(rs[i])))

average_optimized(rs) ==
    LET base == create_degrees_base
        total == OptimizedFold(rs, Len(rs), base)
        result == CDivCount(total, Len(rs))
        angle == CDiv(CLn(result), CLn(base))
    IN  <<angle.re, CNorm(result)>>

\* ------------------------------------------------------ the callers' inputs
\* Directions on the axes, negative ones included.
Angles == {-180, -90, 0, 90}

Readings == Angles \X (0 .. MaxMag)

\* Unit-weight readings close to the 0 / 360 boundary, one beyond a full turn.
ArcReadings == {355, 359, 361, 2} \X {1}

SeqsUpTo(S, n) == UNION {[1 .. k -> S] : k \in 0 .. n}

\* tests::test_average_1 and test_average_2, and a set whose vectors cancel:
\* two opposite unit readings against one of weight two.
Fixtures ==
    { << <<12, 1>>, <<15, 1>>, <<13, 1>>, <<9, 1>>, <<16, 1>> >>,
      << <<358, 1>>, <<1, 1>>, <<359, 1>>, <<355, 1>>, <<2, 1>> >>,
      << <<180, 1>>, <<-180, 1>>, <<0, 2>> >> }

Inputs == SeqsUpTo(Readings, MaxLen) \cup SeqsUpTo(ArcReadings, MaxLen) \cup Fixtures

Variants == {"average", "average_with_trig", "average_optimized"}

\* What a call hands back: the functions return a pair of binary64 values
\* and have no other exit.
Returned(pair) == [kind |-> "value", angle |-> pair[1], magnitude |-> pair[2]]

Apply(v, rs) ==
    IF v = "average" THEN average(rs)
    ELSE IF v = "average_with_trig" THEN average_with_trig(rs)
    ELSE average_optimized(rs)

\* -------------------------------------------------------- the state machine
\* readings: the slice the caller holds; called: what the caller has done
\* with it ("none" at first); out: <<>> until a variant has returned, then
\* <<its outcome>>; conv: <<>> until the readings have been mapped to both
\* vector forms (tests::test_reading_to_axis_and_angle_mag_to_complex_...).
Init ==
    /\ readings \in Inputs
    /\ called = "none"
    /\ out = <<>>
    /\ conv = <<>>

CallAverage ==
    /\ called = "none"
    /\ called' = "average"
    /\ out' = <<Returned(average(readings))>>
    /\ UNCHANGED <<readings, conv>>

CallAverageWithTrig ==
    /\ called = "none"
    /\ called' = "average_with_trig"
    /\ out' = <<Returned(average_with_trig(readings))>>
    /\ UNCHANGED <<readings, conv>>

CallAverageOptimized ==
    /\ called = "none"
    /\ called' = "average_optimized"
    /\ out' = <<Returned(average_optimized(readings))>>
    /\ UNCHANGED <<readings, conv>>

MapReadings ==
    /\ called = "none"
    /\ called' = "map"
    /\ conv' = << [complex |-> [i \in 1 .. Len(readings) |->
                                   angle_mag_to_complex(readings[i], create_degrees_base)],
                   axis |-> [i \in 1 .. Len(readings) |-> reading_to_axis(readings[i])]] >>
    /\ UNCHANGED <<readings, out>>

Next ==
    \/ CallAverage
    \/ CallAverageWithTrig
    \/ CallAverageOptimized
    \/ MapReadings

Spec == Init /\ [][Next]_vars

\* ==================================================================== claims
\* assert_relative_eq!(.., epsilon = 0.1) on the ONE scale
EPS == 100

\* A binary64 value to the precision of the ONE scale.
Val(a) == IF a.e = 0 THEN a.m ELSE 0

Within(a, b, eps) == IsFinite(a) /\ IsFinite(b) /\ Abs(Val(a) - Val(b)) <= eps

Res == out[1]

Returns(v) == called = v /\ out # <<>>

AnyReturns == called \in Variants /\ out # <<>>

Pair(o) == <<o.angle, o.magnitude>>

\* Two result pairs agree within epsilon in angle and in magnitude.
Agree(p, q) == Within(p[1], q[1], EPS) /\ Within(p[2], q[2], EPS)

\* The vector sum of the readings, and whether it is exactly zero.
VectorSum(rs) == AxisFold(rs, Len(rs))

SumIsZero(rs) ==
    /\ IsZero(VectorSum(rs)[1]) /\ IsZero(VectorSum(rs)[2])
    /\ IsZero(ComplexSum(rs, Len(rs), create_degrees_base).re)
    /\ IsZero(ComplexSum(rs, Len(rs), create_degrees_base).im)

\* The representative of d degrees in (-180, 180], and in [-180, 180).
Canonical(d) == ((d + 179) % 360) - 179

SignedDeg(d) == ((d + 180) % 360) - 180

Reorderings(rs) ==
    {[i \in 1 .. Len(rs) |-> rs[f[i]]] :
        f \in {g \in [1 .. Len(rs) -> 1 .. Len(rs)] :
                  \A i, j \in 1 .. Len(rs) : i # j => g[i] # g[j]}}

\* C1: a call of any variant with no readings ends in an InvalidInput error,
\* not in a numeric pair.
C1_EmptyInputIsInvalidInput ==
    (AnyReturns /\ readings = <<>>) => Res.kind = "InvalidInput"

\* C2: on every non-empty reading set the three variants return the same
\* angle and the same magnitude, within 0.1.
C2_VariantsAgree ==
    (AnyReturns /\ readings # <<>>) =>
        \A w \in Variants : Agree(Pair(Res), Apply(w, readings))

\* C3: average_optimized returns exactly what average returns.
C3_OptimizedEqualsAverage ==
    Returns("average_optimized") => Pair(Res) = average(readings)

C3_Witness ==
    /\ Returns("average_optimized")
    /\ Len(readings) >= 2
    /\ \E i, j \in 1 .. Len(readings) :
          /\ readings[i][1] # readings[j][1]
          /\ readings[i][2] >= 2
    /\ IsFinite(Res.angle)
    /\ Res.magnitude # One

\* C4: when the vector sum of a non-empty set is exactly zero, every variant
\* returns a defined angle, and all three return the same one.
C4_ZeroSumAngleDefined ==
    (AnyReturns /\ readings # <<>> /\ SumIsZero(readings)) =>
        /\ IsFinite(Res.angle)
        /\ \A w \in Variants : Apply(w, readings)[1] = Res.angle

\* C5: the returned magnitude is the length of the vector sum divided by
\* the number of readings (non-empty set, non-zero sum).
C5_MagnitudeIsResultantOverCount ==
    (AnyReturns /\ readings # <<>> /\ ~SumIsZero(readings)) =>
        Within(Res.magnitude,
               FDivScaled(Hypot(VectorSum(readings)[1], VectorSum(readings)[2]),
                          Fin(Len(readings), 0), 1),
               EPS)

\* C6: a single reading (theta, m), m > 0, comes back as (theta reduced to
\* (-180, 180], m).
C6_SingleReadingIdentity ==
    (AnyReturns /\ Len(readings) = 1 /\ readings[1][2] > 0) =>
        /\ Within(Res.angle, Fin(Canonical(readings[1][1]) * ONE, 0), EPS)
        /\ Within(Res.magnitude, Fin(readings[1][2] * ONE, 0), EPS)

\* C7: the returned angle lies in (-180, 180] (non-empty set, non-zero sum).
C7_AngleInHalfOpenRange ==
    (AnyReturns /\ readings # <<>> /\ ~SumIsZero(readings)) =>
        /\ IsFinite(Res.angle)
        /\ Res.angle.m > -180 * ONE
        /\ Res.angle.m <= 180 * ONE

\* Two binary64 values that a caller cannot tell apart: both NaN, or finite
\* and within epsilon.
Same(a, b) == (IsNaN(a) /\ IsNaN(b)) \/ Within(a, b, EPS)

\* C8: a variant returns the same angle and the same magnitude for every
\* permutation of the readings.
C8_OrderIndependent ==
    (AnyReturns /\ readings # <<>>) =>
        \A p \in Reorderings(readings) :
            /\ Same(Apply(called, p)[1], Res.angle)
            /\ Same(Apply(called, p)[2], Res.magnitude)

\* The readings have unit weight and lie in an arc shorter than 180 degrees
\* that contains the direction 0.
ArcLo(rs) ==
    CHOOSE d \in {SignedDeg(rs[i][1]) : i \in 1 .. Len(rs)} :
        \A i \in 1 .. Len(rs) : d <= SignedDeg(rs[i][1])

ArcHi(rs) ==
    CHOOSE d \in {SignedDeg(rs[i][1]) : i \in 1 .. Len(rs)} :
        \A i \in 1 .. Len(rs) : d >= SignedDeg(rs[i][1])

InArcAcrossZero(rs) ==
    /\ rs # <<>>
    /\ \A i \in 1 .. Len(rs) : rs[i][2] = 1
    /\ ArcLo(rs) <= 0
    /\ ArcHi(rs) >= 0
    /\ ArcHi(rs) - ArcLo(rs) < 180

PlusFullTurn(rs, i) == [rs EXCEPT ![i] = <<rs[i][1] + 360, rs[i][2]>>]

\* C9: for unit-weight readings in an arc shorter than 180 degrees across
\* 0, average and average_optimized return an angle inside the arc, and a
\* full turn added to any one input angle leaves the result unchanged (both
\* within 0.1).
C9_MeanCrossesZero ==
    ((Returns("average") \/ Returns("average_optimized"))
            /\ InArcAcrossZero(readings)) =>
        /\ IsFinite(Res.angle)
        /\ Val(Res.angle) >= ArcLo(readings) * ONE - EPS
        /\ Val(Res.angle) <= ArcHi(readings) * ONE + EPS
        /\ \A i \in 1 .. Len(readings) :
              Agree(Apply(called, PlusFullTurn(readings, i)), Pair(Res))

C9_Witness ==
    /\ Returns("average_optimized")
    /\ InArcAcrossZero(readings)
    /\ Len(readings) = 5
    /\ ArcLo(readings) = -5
    /\ ArcHi(readings) = 2
    /\ Within(Res.angle, Fin(-ONE, 0), EPS)

\* C10: for every reading the complex-exponential form and the Cartesian
\* form are the same vector, component by component within 0.1.
C10_RepresentationsAgree ==
    (called = "map") =>
        \A i \in 1 .. Len(readings) :
            /\ Within(conv[1].complex[i].re, conv[1].axis[i][1], EPS)
            /\ Within(conv[1].complex[i].im, conv[1].axis[i][2], EPS)

C10_Witness ==
    /\ called = "map"
    /\ \E i, j \in 1 .. Len(readings) :
          /\ readings[i][1] >= 360
          /\ readings[j][1] = 355
          /\ conv[1].axis[i][2].m > 0
          /\ conv[1].complex[j].im.m < 0
          /\ conv[1].complex[j].re.m > 0

=============================================================================
